---------------------------- MODULE Spec2Model ----------------------------
(***************************************************************************)
(* A model of the go-fcm client library.                                   *)
(*                                                                         *)
(* The package has no lock.  A Send is not one step: it waits for the      *)
(* token exchange, for the response and for the response body, and calls   *)
(* made on the same client from other goroutines run during those waits.   *)
(*                                                                         *)
(* The repository holds two client implementations:                        *)
(*   src/unnamed/part_000  one client with a protocol flag (UseV1Api),     *)
(*                         sendOnce + convertToV1Message + parseStatusBodyV1*)
(*   src/fcm.go            the legacy client plus sendViaV1                 *)
(* The builder methods are textually the same in both files; Send differs. *)
(* A client of the model carries the implementation it is an instance of   *)
(* (client.impl) and every operation is translated from that file.         *)
(***************************************************************************)
EXTENDS Integers, Sequences, FiniteSets, TLC

VARIABLES
    client,     \* FcmClient minus its Message: impl, ApiKey, protocol flag, credentials
    Message,    \* FcmClient.Message (FcmMsg)
    heap,       \* backing arrays of the slices: the caller's list and the client's own
    ops,        \* number of client calls made so far
    lastOp,     \* the most recent step: a call and its arguments, the wait a Send
                \* has entered, or the return of a Send and what the environment
                \* answered it
    ret,        \* what the most recent call to return returned
    wire,       \* the message requests the most recent Send handed to the HTTP client
    tokenCalls, \* how often the most recent Send asked for a bearer token
    call,       \* the Send in flight: the wait it is in and what it has read so far
    prior,      \* the bodies earlier Sends transmitted and got a response to, with
                \* no setter call since
    pin,        \* input of the pure function under check
    pout        \* its output

vars == <<client, Message, heap, ops, lastOp, ret, wire, tokenCalls, call, prior, pin, pout>>

clientVars == <<client, Message, heap, ops, lastOp, ret, wire, tokenCalls, call, prior>>

pureVars == <<pin, pout>>

-----------------------------------------------------------------------------
(* Program constants.                                                      *)

MAX_TTL == 2419200

Priority_HIGH == "high"

Priority_NORMAL == "normal"

error_key == "error"

retreyableErrors == {"Unavailable", "InternalServerError"}

fcm_server_url == "https://fcm.googleapis.com/fcm/send"

-----------------------------------------------------------------------------
(* Bounds of the model.                                                    *)

\* client calls (builder calls and Send) per behaviour
MaxOps == 2

\* further Sends a behaviour may make after its last call, each directly after
\* a Send and in the environment of that Send: the same message sent again
MaxResends == 1

\* longest array in a flattened data tree
MaxArrLen == 2

\* longest result list of a ResponseStatus given to IsTimeout
MaxResults == 2

-----------------------------------------------------------------------------
(* Dynamic values: what encoding/json decodes into interface{} and what a  *)
(* caller can hand over as a data payload.  A value is a tagged record;    *)
(* each tag has its own field name, so that two values of different tags   *)
(* are simply unequal.                                                     *)

Str(s) == [t |-> "str", s |-> s]

Num(n) == [t |-> "num", n |-> n]

Bool(b) == [t |-> "bool", b |-> b]

Null == [t |-> "null"]

Arr(items) == [t |-> "arr", items |-> items]

Obj(kv) == [t |-> "obj", kv |-> kv]

\* The empty map / the empty list.
Empty == <<>>

\* Strings have no order in TLA+: the byte order Go sorts map keys by (in
\* encoding/json and in fmt) is given by this list, which holds every key that
\* occurs in a value of the model, in ascending byte order.
KeyOrder ==
    << "a", "a.b", "alert", "b", "c", "c.0", "canonical_ids", "code", "data",
       "error", "failure", "k", "message", "message_id", "multicast_id", "name",
       "results", "status", "success" >>

SortedKeys(S) == SelectSeq(KeyOrder, LAMBDA k : k \in S)

SeqsUpTo(S, n) == UNION { [1..m -> S] : m \in 0..n }

\* map[key] = value on a Go map: insert or overwrite.
Put(m, k, v) == [x \in (DOMAIN m) \cup {k} |-> IF x = k THEN v ELSE m[x]]

RECURSIVE Join(_, _)
\* strings.Join-like: the strings of a sequence separated by sep.
Join(ss, sep) ==
    IF ss = <<>> THEN ""
    ELSE IF Len(ss) = 1 THEN ss[1]
    ELSE ss[1] \o sep \o Join(Tail(ss), sep)

-----------------------------------------------------------------------------
(* fmt.Sprintf("%v", v) and json.Marshal(v) on dynamic values.             *)

\* strconv 'g' formatting with the shortest precision, as %v applies to a
\* float64.  The model's numbers are integers n with |n| < 10^6, where the
\* format is the plain decimal; from 10^6 on Go switches to the exponent form
\* (1e+06), which no number of the model reaches.
fmtFloat(n) == ToString(n)

RECURSIVE fmtV(_)
\* fmt's %v: a string verbatim, a number by fmtFloat, true/false, <nil>, a
\* list as [e1 e2], a map as map[k1:v1 k2:v2] with the keys sorted.
fmtV(v) ==
    CASE v.t = "str"  -> v.s
      [] v.t = "num"  -> fmtFloat(v.n)
      [] v.t = "bool" -> IF v.b THEN "true" ELSE "false"
      [] v.t = "null" -> "<nil>"
      [] v.t = "arr"  ->
            "[" \o Join([i \in 1..Len(v.items) |-> fmtV(v.items[i])], " ") \o "]"
      [] v.t = "obj"  ->
            LET ks == SortedKeys(DOMAIN v.kv)
            IN "map[" \o Join([i \in 1..Len(ks) |-> ks[i] \o ":" \o fmtV(v.kv[ks[i]])], " ")
                      \o "]"

\* A JSON string literal.  The strings of the model hold no character that
\* encoding/json escapes (quote, backslash, control characters, <, >, &).
jsonQuote(s) == "\"" \o s \o "\""

RECURSIVE jsonMarshal(_)
\* json.Marshal of a dynamic value: compact, the keys of a map sorted.
jsonMarshal(v) ==
    CASE v.t = "str"  -> jsonQuote(v.s)
      [] v.t = "num"  -> ToString(v.n)
      [] v.t = "bool" -> IF v.b THEN "true" ELSE "false"
      [] v.t = "null" -> "null"
      [] v.t = "arr"  ->
            "[" \o Join([i \in 1..Len(v.items) |-> jsonMarshal(v.items[i])], ",") \o "]"
      [] v.t = "obj"  ->
            LET ks == SortedKeys(DOMAIN v.kv)
            IN "{" \o Join([i \in 1..Len(ks) |->
                              jsonQuote(ks[i]) \o ":" \o jsonMarshal(v.kv[ks[i]])], ",")
                   \o "}"

-----------------------------------------------------------------------------
(* flattenMap.  Go visits the keys of a map in an unspecified order, so    *)
(* the model computes the set of outputs over every visiting order.        *)

RECURSIVE flattenArr(_, _, _, _)
\* The []interface{} case: output[fullKey.i] = Sprintf("%v", elem) for each
\* element from index i on, in index order.  No recursion into elements.
flattenArr(fullKey, items, i, output) ==
    IF i > Len(items) THEN output
    ELSE flattenArr(fullKey, items, i + 1,
                    Put(output, fullKey \o "." \o ToString(i - 1), fmtV(items[i])))

RECURSIVE flattenMap(_, _, _)
RECURSIVE flattenRange(_, _, _, _)

\* One iteration of the range loop on entry key of input.
flattenEntry(prefix, input, key, output) ==
    LET value   == input[key]
        fullKey == IF prefix # "" THEN prefix \o "." \o key ELSE key
    IN CASE value.t = "str" -> { Put(output, fullKey, value.s) }
         [] value.t = "num" -> { Put(output, fullKey, fmtV(value)) }
         [] value.t = "arr" -> { flattenArr(fullKey, value.items, 1, output) }
         [] value.t = "obj" -> flattenMap(fullKey, value.kv, output)
         [] OTHER           -> { Put(output, fullKey, fmtV(value)) }

\* The range loop over the keys not yet visited, in any order.
flattenRange(prefix, input, todo, output) ==
    IF todo = {} THEN { output }
    ELSE UNION { UNION { flattenRange(prefix, input, todo \ {k}, o) :
                           o \in flattenEntry(prefix, input, k, output) } :
                 k \in todo }

\* flattenMap(prefix, input, output): the possible contents of output afterwards.
flattenMap(prefix, input, output) ==
    flattenRange(prefix, input, DOMAIN input, output)

-----------------------------------------------------------------------------
(* FcmResponseStatus and IsTimeout.                                        *)

\* new(FcmResponseStatus) of part_000, where Err is a string.
NewStatus ==
    [ Ok |-> FALSE, StatusCode |-> 0, MulticastId |-> 0, Success |-> 0, Fail |-> 0,
      Canonical_ids |-> 0, Results |-> Empty, MsgId |-> 0, Err |-> Str(""),
      RetryAfter |-> "" ]

\* new(FcmResponseStatus) of fcm.go, where Err is an interface{}.
NewStatusFcm == [NewStatus EXCEPT !.Err = Null]

\* IsTimeout with the status test written > 500 instead of >= 500.
IsTimeoutOffByOne(st) ==
    IF st.StatusCode > 500 THEN TRUE
    ELSE IF st.StatusCode = 200
         THEN \E i \in 1..Len(st.Results) :
                 \E k \in DOMAIN st.Results[i] :
                    k = error_key /\ st.Results[i][k] \in retreyableErrors
         ELSE FALSE

RECURSIVE isTimeoutFrom(_, _)
\* The loop over this.Results from index i on.
isTimeoutFrom(results, i) ==
    IF i > Len(results) THEN FALSE
    ELSE IF \E k \in DOMAIN results[i] :
                k = error_key /\ results[i][k] \in retreyableErrors
         THEN TRUE
         ELSE isTimeoutFrom(results, i + 1)

\* FcmResponseStatus.IsTimeout (the same text in both files).
IsTimeout(st) ==
    IF st.StatusCode >= 500 THEN TRUE
    ELSE IF st.StatusCode = 200 THEN isTimeoutFrom(st.Results, 1)
    ELSE FALSE

-----------------------------------------------------------------------------
(* The message under construction and the slices behind its device list.   *)

\* The zero NotificationPayload.
NoNotification ==
    [ Title |-> "", Body |-> "", Icon |-> "", Sound |-> "", Badge |-> "", Tag |-> "",
      Color |-> "", ClickAction |-> "", BodyLocKey |-> "", BodyLocArgs |-> "",
      TitleLocKey |-> "", TitleLocArgs |-> "", AndroidChannelID |-> "" ]

\* A data payload is an interface{}: its dynamic type and its value.
NilData == [dyn |-> "nil", val |-> Null]

\* The nil slice.
NilSlice == [arr |-> "nil", len |-> 0]

\* The zero FcmMsg.
NewMessage ==
    [ Data |-> NilData, To |-> "", RegistrationIds |-> NilSlice, CollapseKey |-> "",
      Priority |-> "", Notification |-> NoNotification, ContentAvailable |-> FALSE,
      DelayWhileIdle |-> FALSE, TimeToLive |-> 0, RestrictedPackageName |-> "",
      DryRun |-> FALSE, Condition |-> "" ]

\* cap(s) and the elements of slice s in heap h.  Every slice of the model
\* starts at index 0 of its array.
Cap(h, s) == IF s.arr = "nil" THEN 0 ELSE Len(h[s.arr])

Elems(h, s) == IF s.arr = "nil" THEN <<>> ELSE SubSeq(h[s.arr], 1, s.len)

\* The caller's list argument: the first n elements of the caller's array.
CallerList(n) == [arr |-> "caller", len |-> n]

\* The registration ids the message holds.
RegIds == Elems(heap, Message.RegistrationIds)

\* The capacity the runtime gives a slice grown from oldCap to hold needed
\* elements (small slices: double, or the needed length if that is more).
growCap(oldCap, needed) == IF needed > 2 * oldCap THEN needed ELSE 2 * oldCap

\* newDevicesList storing the caller's slice itself instead of a copy.
newDevicesListAlias(h, list) == [heap |-> h, slice |-> list]

\* newDevicesList: make([]string, len(list)) and copy.
newDevicesList(h, list) ==
    [ heap  |-> [h EXCEPT !.own = Elems(h, list)],
      slice |-> [arr |-> "own", len |-> list.len] ]

\* append(cur, list...): in place when the capacity allows, else into a new
\* array of the client's.
appendSlice(h, cur, list) ==
    LET n     == cur.len + list.len
        added == Elems(h, list)
    IN IF list.len = 0 THEN [heap |-> h, slice |-> cur]
       ELSE IF n <= Cap(h, cur)
            THEN [ heap  |-> [h EXCEPT ![cur.arr] =
                                [i \in 1..Len(h[cur.arr]) |->
                                    IF i > cur.len /\ i <= n THEN added[i - cur.len]
                                    ELSE h[cur.arr][i]]],
                   slice |-> [cur EXCEPT !.len = n] ]
            ELSE LET c == growCap(Cap(h, cur), n)
                 IN [ heap  |-> [h EXCEPT !.own =
                                   [i \in 1..c |->
                                       IF i <= cur.len THEN Elems(h, cur)[i]
                                       ELSE IF i <= n THEN added[i - cur.len]
                                       ELSE ""]],
                      slice |-> [arr |-> "own", len |-> n] ]

\* The value SetTimeToLive stores for ttl.
timeToLive(ttl) == IF ttl > MAX_TTL THEN MAX_TTL ELSE ttl

\* SetPriority storing its argument as given.
priorityAsGiven(p) == p

\* The value SetPriority stores for p.
priority(p) == IF p = Priority_HIGH THEN Priority_HIGH ELSE Priority_NORMAL

-----------------------------------------------------------------------------
(* Clients.                                                                *)

\* Service-account credentials, by what the collaborators make of them:
\*   wf        the document is well-formed JSON (always so for the struct of part_000)
\*   valid     google.JWTConfigFromJSON accepts it
\*   ProjectID its project_id field ("" when absent)
Creds(wf, valid, pid) == [wf |-> wf, valid |-> valid, ProjectID |-> pid]

\* NewFcmClient of part_000: the protocol is chosen by the project id.
NewFcmClient(apiKey, gcmCredentials) ==
    [ impl        |-> "part_000",
      ApiKey      |-> apiKey,
      UseV1Api    |-> gcmCredentials.ProjectID # "",
      V1ProjectID |-> IF gcmCredentials.ProjectID # "" THEN gcmCredentials.ProjectID ELSE "",
      creds       |-> gcmCredentials ]

\* NewFcmClient of fcm.go, followed by the caller's assignments to the public
\* fields UseV1API and CredentialsJSON (the constructor leaves them zero).
NewFcmClientFcm(apiKey, useV1, credentialsJSON) ==
    [ impl        |-> "fcm.go",
      ApiKey      |-> apiKey,
      UseV1Api    |-> useV1,
      V1ProjectID |-> "",
      creds       |-> credentialsJSON ]

Clients ==
    { NewFcmClient("AIza", c) :
        c \in { Creds(TRUE, TRUE, ""), Creds(TRUE, TRUE, "p"), Creds(TRUE, FALSE, "p") } }
    \cup { NewFcmClientFcm("AIza", FALSE, Creds(FALSE, FALSE, "")) }
    \cup { NewFcmClientFcm("AIza", TRUE, c) :
             c \in { Creds(TRUE, TRUE, "p"), Creds(TRUE, TRUE, ""), Creds(FALSE, FALSE, "") } }

-----------------------------------------------------------------------------
(* The inputs of the builder calls.                                        *)

\* {"a":{"b":1,"c":[10,20]}}
NestedTree ==
    Obj("a" :> Obj(("b" :> Num(1)) @@ ("c" :> Arr(<<Num(10), Num(20)>>))))

\* {"alert":"hi","data":"x"}
AlertTree == Obj(("alert" :> Str("hi")) @@ ("data" :> Str("x")))

\* map[string]string{"k":"v"}
StringMapData == [dyn |-> "map[string]string", val |-> Obj("k" :> Str("v"))]

\* A payload encoding/json cannot serialize (a channel).
ChanData == [dyn |-> "chan", val |-> Null]

Payloads ==
    { NilData,
      [dyn |-> "map[string]interface{}", val |-> NestedTree],
      [dyn |-> "map[string]interface{}", val |-> AlertTree],
      StringMapData,
      ChanData }

\* NewFcmTopicMsg takes a map[string]string.
StringMapPayloads == { StringMapData }

\* The payloads NewFcmRegIdsMsg is called with.
RegIdsPayloads == { NilData, [dyn |-> "map[string]interface{}", val |-> NestedTree] }

Targets == { "tok" }

Topics == { "/topics/news" }

Priorities == { "high", "normal", "urgent" }

TTLs == { -1, 3600, MAX_TTL, MAX_TTL + 1 }

Notifications ==
    { [NoNotification EXCEPT !.Title = "t", !.Body = "b", !.Badge = "3"],
      [NoNotification EXCEPT !.Title = "t", !.Badge = "x"] }

\* The caller's array of device ids as first written, and the values a later
\* write of the caller's stores in it.
CallerInit == << "d1", "d2" >>

Ids == { "d2" }

\* The elements of its array the caller writes to.
WriteIndexes == { 1 }

-----------------------------------------------------------------------------
(* The environment of one Send: the token endpoint and the FCM server.     *)

\* A response body: malformed text, or a JSON document given by its value.
Malformed == [wf |-> FALSE, json |-> Null]

Doc(v) == [wf |-> TRUE, json |-> v]

\* {"name":"projects/p/messages/123"}
BodyName == Doc(Obj("name" :> Str("projects/p/messages/123")))

\* {"error":{"code":404,"message":"Requested entity was not found.","status":"NOT_FOUND"}}
BodyV1Error ==
    Doc(Obj("error" :> Obj(("code" :> Num(404))
                           @@ ("message" :> Str("Requested entity was not found."))
                           @@ ("status" :> Str("NOT_FOUND")))))

\* {"error":{"code":503,"message":"The service is currently unavailable.","status":"UNAVAILABLE"}}
BodyV1Unavailable ==
    Doc(Obj("error" :> Obj(("code" :> Num(503))
                           @@ ("message" :> Str("The service is currently unavailable."))
                           @@ ("status" :> Str("UNAVAILABLE")))))

\* {"multicast_id":108,"success":1,"failure":0,"canonical_ids":0,"results":[{"message_id":"m1"}]}
BodyLegacyOk ==
    Doc(Obj(("multicast_id" :> Num(108)) @@ ("success" :> Num(1)) @@ ("failure" :> Num(0))
            @@ ("canonical_ids" :> Num(0))
            @@ ("results" :> Arr(<<Obj("message_id" :> Str("m1"))>>))))

\* {"multicast_id":108,"success":0,"failure":1,"canonical_ids":0,"results":[{"error":"Unavailable"}]}
BodyLegacyFail ==
    Doc(Obj(("multicast_id" :> Num(108)) @@ ("success" :> Num(0)) @@ ("failure" :> Num(1))
            @@ ("canonical_ids" :> Num(0))
            @@ ("results" :> Arr(<<Obj("error" :> Str("Unavailable"))>>))))

\* {"error":"TopicsMessageRateExceeded"}
BodyTopicError == Doc(Obj("error" :> Str("TopicsMessageRateExceeded")))

Bodies ==
    { Malformed, BodyName, BodyV1Error, BodyV1Unavailable, BodyLegacyOk, BodyLegacyFail,
      BodyTopicError }

StatusCodes == { 200, 404, 503 }

\* The responses of the server: any of the bodies under any of the status
\* codes, a 503 with a Retry-After header and the others without.
Responses ==
    { [code |-> c, retryAfter |-> IF c = 503 THEN "120s" ELSE "", body |-> b] :
        c \in StatusCodes, b \in Bodies }

NoResponse == [code |-> 0, retryAfter |-> "", body |-> Malformed]

\* What the environment answers a Send.  token: whether the OAuth2 token
\* exchange succeeds ("ok", "fail"), "unasked" when the Send never waited for
\* it.  net: whether the POST gets a response ("ok"), fails in client.Do
\* ("doErr") or fails while the body is read ("readErr"), "unused" when the
\* Send never posted.
NoEnv == [token |-> "unasked", net |-> "unused", resp |-> NoResponse]

\* The environment in which every wait so far has succeeded: what the code
\* does up to its next wait is what it does in this one.
ProbeEnv == [token |-> "ok", net |-> "ok", resp |-> NoResponse]

AccessToken == "ya29.t"

-----------------------------------------------------------------------------
(* encoding/json on the response side.                                     *)

\* Member k of JSON object o is present with a value of kind t.
Has(o, k, t) == k \in DOMAIN o /\ o[k].t = t

\* Member k of o is present, not null and not of kind t: an UnmarshalTypeError
\* (the decoder notes it, skips the member and goes on).
Mismatch(o, k, t) == k \in DOMAIN o /\ o[k].t \notin {t, "null"}

\* A JSON value that decodes into []map[string]string.
IsResultList(v) ==
    /\ v.t = "arr"
    /\ \A i \in 1..Len(v.items) :
          /\ v.items[i].t = "obj"
          /\ \A k \in DOMAIN v.items[i].kv : v.items[i].kv[k].t = "str"

decodeResults(v) ==
    [i \in 1..Len(v.items) |-> [k \in DOMAIN v.items[i].kv |-> v.items[i].kv[k].s]]

\* json.Unmarshal(body, status) for an FcmResponseStatus.  errIsString: the
\* Err field is a string (part_000) and not an interface{} (fcm.go).  The
\* fields without a tag (Ok, StatusCode, RetryAfter) are matched by name.
\* A results member that is not a list of string maps is taken as a type
\* error that leaves Results alone.
unmarshalStatus(st, body, errIsString) ==
    IF ~body.wf THEN [st |-> st, err |-> "parse"]
    ELSE IF body.json.t = "null" THEN [st |-> st, err |-> "nil"]
    ELSE IF body.json.t # "obj" THEN [st |-> st, err |-> "parse"]
    ELSE
      LET o == body.json.kv
          int(k, cur) == IF Has(o, k, "num") THEN o[k].n ELSE cur
          bad ==
            \/ \E k \in {"multicast_id", "success", "failure", "canonical_ids",
                         "message_id", "StatusCode"} : Mismatch(o, k, "num")
            \/ Mismatch(o, "Ok", "bool")
            \/ Mismatch(o, "RetryAfter", "str")
            \/ ("results" \in DOMAIN o /\ o["results"].t # "null"
                  /\ ~IsResultList(o["results"]))
            \/ (errIsString /\ Mismatch(o, "error", "str"))
      IN [ st |->
             [ Ok            |-> IF Has(o, "Ok", "bool") THEN o["Ok"].b ELSE st.Ok,
               StatusCode    |-> int("StatusCode", st.StatusCode),
               MulticastId   |-> int("multicast_id", st.MulticastId),
               Success       |-> int("success", st.Success),
               Fail          |-> int("failure", st.Fail),
               Canonical_ids |-> int("canonical_ids", st.Canonical_ids),
               Results       |-> IF "results" \in DOMAIN o /\ IsResultList(o["results"])
                                 THEN decodeResults(o["results"]) ELSE st.Results,
               MsgId         |-> int("message_id", st.MsgId),
               Err           |-> IF errIsString
                                 THEN (IF Has(o, "error", "str") THEN o["error"] ELSE st.Err)
                                 ELSE (IF "error" \in DOMAIN o THEN o["error"] ELSE st.Err),
               RetryAfter    |-> IF Has(o, "RetryAfter", "str") THEN o["RetryAfter"].s
                                 ELSE st.RetryAfter ],
           err |-> IF bad THEN "parse" ELSE "nil" ]

\* parseStatusBody of part_000.
parseStatusBody(st, body) == unmarshalStatus(st, body, TRUE)

\* parseStatusBody of fcm.go.
parseStatusBodyFcm(st, body) == unmarshalStatus(st, body, FALSE)

\* json.Unmarshal(body, &v1Resp) for an FcmV1Response.
unmarshalV1(body) ==
    LET zero == [Name |-> "", Error |-> [Code |-> 0, Message |-> "", Status |-> ""]]
    IN IF ~body.wf THEN [v |-> zero, err |-> "parse"]
       ELSE IF body.json.t = "null" THEN [v |-> zero, err |-> "nil"]
       ELSE IF body.json.t # "obj" THEN [v |-> zero, err |-> "parse"]
       ELSE
         LET o == body.json.kv
             e == IF Has(o, "error", "obj") THEN o["error"].kv ELSE Empty
             bad == \/ Mismatch(o, "name", "str")
                    \/ Mismatch(o, "error", "obj")
                    \/ Mismatch(e, "code", "num")
                    \/ Mismatch(e, "message", "str")
                    \/ Mismatch(e, "status", "str")
         IN [ v |-> [ Name  |-> IF Has(o, "name", "str") THEN o["name"].s ELSE "",
                      Error |-> [ Code    |-> IF Has(e, "code", "num") THEN e["code"].n ELSE 0,
                                  Message |-> IF Has(e, "message", "str")
                                              THEN e["message"].s ELSE "",
                                  Status  |-> IF Has(e, "status", "str")
                                              THEN e["status"].s ELSE "" ] ],
              err |-> IF bad THEN "parse" ELSE "nil" ]

\* parseStatusBodyV1 of part_000.
parseStatusBodyV1(st, body) ==
    LET u == unmarshalV1(body)
    IN IF u.err # "nil" THEN [st |-> st, err |-> u.err]
       ELSE
         LET norm == [st EXCEPT !.MulticastId = 0, !.Success = 0, !.Fail = 0,
                                !.Canonical_ids = 0, !.Results = Empty]
         IN IF u.v.Error.Message # ""
            THEN [ st |-> [norm EXCEPT !.Fail = 1,
                                       !.Results = <<(error_key :> u.v.Error.Status)>>,
                                       !.Err = Str(u.v.Error.Message),
                                       !.StatusCode = u.v.Error.Code,
                                       !.Ok = FALSE],
                   err |-> "nil" ]
            ELSE [ st |-> [norm EXCEPT !.Success = 1,
                                       !.Results = <<("message_id" :> u.v.Name)>>,
                                       !.MsgId = 1,
                                       !.Ok = TRUE,
                                       !.StatusCode = 200],
                   err |-> "nil" ]

-----------------------------------------------------------------------------
(* encoding/json on the request side, and the versioned payload.           *)

\* A member that omitempty drops when it is not present.
Opt(k, present, v) == IF present THEN k :> v ELSE Empty

\* The JSON names of the NotificationPayload fields.
NotificationTags ==
    { <<"Title", "title">>, <<"Body", "body">>, <<"Icon", "icon">>, <<"Sound", "sound">>,
      <<"Badge", "badge">>, <<"Tag", "tag">>, <<"Color", "color">>,
      <<"ClickAction", "click_action">>, <<"BodyLocKey", "body_loc_key">>,
      <<"BodyLocArgs", "body_loc_args">>, <<"TitleLocKey", "title_loc_key">>,
      <<"TitleLocArgs", "title_loc_args">>, <<"AndroidChannelID", "android_channel_id">> }

\* json.Marshal of a NotificationPayload in which body_loc_key carries the tag
\* of title_loc_key: encoding/json drops two fields that share a name.
notificationJsonSharedTag(n) ==
    LET present == { p \in NotificationTags :
                       n[p[1]] # "" /\ p[1] \notin {"BodyLocKey", "TitleLocKey"} }
    IN Obj([k \in { p[2] : p \in present } |->
              Str(n[(CHOOSE p \in present : p[2] = k)[1]])])

\* json.Marshal of a NotificationPayload: every field is omitempty.
notificationJson(n) ==
    LET present == { p \in NotificationTags : n[p[1]] # "" }
    IN Obj([k \in { p[2] : p \in present } |->
              Str(n[(CHOOSE p \in present : p[2] = k)[1]])])

\* FcmMsg.toJsonByte: json.Marshal of the message, as the JSON value it
\* writes.  Every member but notification is dropped when empty; a struct is
\* never empty for omitempty, so notification is always there.
toJsonByte(msg, h) ==
    IF msg.Data.dyn = "chan" THEN [err |-> "marshal", json |-> Null]
    ELSE
      LET ids == Elems(h, msg.RegistrationIds)
      IN [ err  |-> "nil",
           json |-> Obj(
                Opt("data", msg.Data.dyn # "nil", msg.Data.val)
             @@ Opt("to", msg.To # "", Str(msg.To))
             @@ Opt("registration_ids", Len(ids) > 0,
                    Arr([i \in 1..Len(ids) |-> Str(ids[i])]))
             @@ Opt("collapse_key", msg.CollapseKey # "", Str(msg.CollapseKey))
             @@ Opt("priority", msg.Priority # "", Str(msg.Priority))
             @@ ("notification" :> notificationJson(msg.Notification))
             @@ Opt("content_available", msg.ContentAvailable, Bool(TRUE))
             @@ Opt("delay_while_idle", msg.DelayWhileIdle, Bool(TRUE))
             @@ Opt("time_to_live", msg.TimeToLive # 0, Num(msg.TimeToLive))
             @@ Opt("restricted_package_name", msg.RestrictedPackageName # "",
                    Str(msg.RestrictedPackageName))
             @@ Opt("dry_run", msg.DryRun, Bool(TRUE))
             @@ Opt("condition", msg.Condition # "", Str(msg.Condition))) ]

\* json.Unmarshal of a JSON object into a NotificationPayload.
unmarshalNotification(o) ==
    [ f \in DOMAIN NoNotification |->
        LET tag == (CHOOSE p \in NotificationTags : p[1] = f)[2]
        IN IF Has(o, tag, "str") THEN o[tag].s ELSE "" ]

\* json.Unmarshal of a JSON object into a zero FcmMsg, by the tags of the
\* struct: a member that is absent leaves the zero value; data decodes into
\* an interface{} (an object into a map[string]interface{}), the
\* registration ids into a []string.
unmarshalMsg(v) ==
    LET o == v.kv
        str(k)  == IF Has(o, k, "str") THEN o[k].s ELSE ""
        bool(k) == IF Has(o, k, "bool") THEN o[k].b ELSE FALSE
    IN [ Data                  |-> IF "data" \in DOMAIN o THEN o["data"] ELSE Null,
         To                    |-> str("to"),
         RegistrationIds       |-> IF Has(o, "registration_ids", "arr")
                                   THEN [i \in 1..Len(o["registration_ids"].items) |->
                                            o["registration_ids"].items[i].s]
                                   ELSE <<>>,
         CollapseKey           |-> str("collapse_key"),
         Priority              |-> str("priority"),
         Notification          |-> IF Has(o, "notification", "obj")
                                   THEN unmarshalNotification(o["notification"].kv)
                                   ELSE NoNotification,
         ContentAvailable      |-> bool("content_available"),
         DelayWhileIdle        |-> bool("delay_while_idle"),
         TimeToLive            |-> IF Has(o, "time_to_live", "num")
                                   THEN o["time_to_live"].n ELSE 0,
         RestrictedPackageName |-> str("restricted_package_name"),
         DryRun                |-> bool("dry_run"),
         Condition             |-> str("condition") ]

\* safeString on a field of type string.
safeString(value) == value

\* The range of numerals strconv.Atoi is given in the model.
AtoiRange == -9 .. 99

\* strconv.Atoi on a badge string; the badge strings of the model are either
\* plain decimal numerals or no numerals at all.
Atoi(str) ==
    IF \E n \in AtoiRange : ToString(n) = str
    THEN [n |-> CHOOSE n \in AtoiRange : ToString(n) = str, err |-> "nil"]
    ELSE [n |-> 0, err |-> "syntax"]

\* convertToV1Message: the payloads it can return (one for each outcome of
\* the map iteration in flattenMap).
convertToV1Message(msg) ==
    LET data == IF msg.Data.dyn = "map[string]interface{}" THEN msg.Data.val.kv ELSE Empty
        stringifiedData == jsonMarshal(Obj(data))
        notification == msg.Notification
        alert == IF Has(data, "alert", "str") THEN data["alert"].s ELSE ""
        title == IF alert # "" THEN alert ELSE safeString(notification.Title)
        body  == safeString(notification.Body)
        notification_badge == safeString(notification.Badge)
        notification_count ==
            IF notification_badge # "" /\ Atoi(notification_badge).err = "nil"
            THEN Atoi(notification_badge).n ELSE 0
    IN { LET v1Data == Obj([k \in DOMAIN Put(flat, "data", stringifiedData) |->
                               Str(Put(flat, "data", stringifiedData)[k])])
         IN Obj("message" :> Obj(
                  ("token" :> Str(msg.To))
               @@ ("notification" :> Obj(("title" :> Str(title)) @@ ("body" :> Str(body))))
               @@ ("data" :> v1Data)
               @@ ("android" :> Obj(
                      ("collapse_key" :> Str(safeString(msg.CollapseKey)))
                   @@ ("priority" :> Str(safeString(msg.Priority)))
                   @@ ("ttl" :> Str(ToString(msg.TimeToLive) \o "s"))
                   @@ ("restricted_package_name" :>
                          Str(safeString(msg.RestrictedPackageName)))
                   @@ ("data" :> v1Data)
                   @@ ("notification" :> Obj(
                          ("title" :> Str(title))
                       @@ ("body" :> Str(body))
                       @@ ("icon" :> Str(safeString(notification.Icon)))
                       @@ ("color" :> Str(safeString(notification.Color)))
                       @@ ("sound" :> Str(safeString(notification.Sound)))
                       @@ ("notification_count" :> Num(notification_count))
                       @@ ("tag" :> Str(safeString(notification.Tag)))
                       @@ ("click_action" :> Str(safeString(notification.ClickAction)))
                       @@ ("body_loc_key" :> Str(safeString(notification.BodyLocKey)))
                       @@ ("body_loc_args" :> Str(safeString(notification.BodyLocArgs)))
                       @@ ("title_loc_key" :> Str(safeString(notification.TitleLocKey)))
                       @@ ("title_loc_args" :> Str(safeString(notification.TitleLocArgs)))
                       @@ ("channel_id" :>
                              Str(safeString(notification.AndroidChannelID)))))))))
         : flat \in flattenMap("", data, Empty) }

\* The payload sendViaV1 of fcm.go builds, as the JSON value json.Marshal
\* writes: token always, the notification twice (omitempty on every field of
\* it), the data as given (dropped when nil).
sendViaV1Payload(msg) ==
    IF msg.Data.dyn = "chan" THEN [err |-> "marshal", json |-> Null]
    ELSE [ err  |-> "nil",
           json |-> Obj("message" :> Obj(
                       ("token" :> Str(msg.To))
                    @@ ("notification" :> notificationJson(msg.Notification))
                    @@ ("android" :>
                           Obj("notification" :> notificationJson(msg.Notification)))
                    @@ Opt("data", msg.Data.dyn # "nil", msg.Data.val))) ]

-----------------------------------------------------------------------------
(* Send.                                                                   *)

\* A request handed to the HTTP client.
Request(url, auth, body) ==
    [ method |-> "POST", url |-> url, Authorization |-> auth,
      ContentType |-> "application/json", body |-> body ]

\* apiKeyHeader giving the API key as a bearer token.
apiKeyHeaderBearer(c) == "Bearer " \o c.ApiKey

\* apiKeyHeader: "key=" + ApiKey.
apiKeyHeader(c) == "key=" \o c.ApiKey

\* fmt.Sprintf(fcm_v1_server_url, projectID).
v1Url(projectID) == "https://fcm.googleapis.com/v1/projects/" \o projectID \o "/messages:send"

\* What Send gives back: a status with an error, a nil status with an error,
\* or no return at all (a panic).
Returned(st, err) == [kind |-> "status", nil |-> FALSE, st |-> st, err |-> err]

ReturnedNil(err) == [kind |-> "status", nil |-> TRUE, st |-> NewStatusFcm, err |-> err]

Panicked == [kind |-> "panic"]

Outcome(r, reqs, tc) == [ret |-> r, wire |-> reqs, tokenCalls |-> tc]

\* getToken of part_000: the credentials struct always serializes; the JWT
\* configuration or the token exchange may fail.
getToken(c, env) ==
    IF ~c.creds.valid THEN [token |-> "", err |-> "auth"]
    ELSE IF env.token # "ok" THEN [token |-> "", err |-> "auth"]
    ELSE [token |-> AccessToken, err |-> "nil"]

\* getToken of fcm.go: it prints token.AccessToken before it looks at the
\* error of the exchange, and the token is nil when the exchange failed.
getTokenFcm(c, env) ==
    IF ~c.creds.wf \/ ~c.creds.valid THEN [token |-> "", err |-> "auth", panic |-> FALSE]
    ELSE IF env.token # "ok" THEN [token |-> "", err |-> "auth", panic |-> TRUE]
    ELSE [token |-> AccessToken, err |-> "nil", panic |-> FALSE]

\* getProjectID of fcm.go.
getProjectID(c) ==
    IF ~c.creds.wf THEN [id |-> "", err |-> "parse"]
    ELSE [id |-> c.creds.ProjectID, err |-> "nil"]

\* client.Do followed by a second client.Do when the server answered 5xx.
clientDoRetrying(request, env) ==
    [ posted |-> IF env.net = "ok" /\ env.resp.code >= 500
                 THEN <<request, request>> ELSE <<request>>,
      err    |-> IF env.net = "ok" THEN "nil" ELSE "transport",
      resp   |-> env.resp ]

\* client.Do(request) and ioutil.ReadAll(response.Body): one POST, then a
\* response or a transport error.
clientDo(request, env) ==
    [ posted |-> <<request>>,
      err    |-> IF env.net = "ok" THEN "nil" ELSE "transport",
      resp   |-> env.resp ]

\* sendOnce from the response on, with the body of a legacy non-200 response
\* parsed as well.
sendOnceResponseParsing(useV1, resp) ==
    LET st0 == [NewStatus EXCEPT !.StatusCode = resp.code, !.RetryAfter = resp.retryAfter]
    IN IF resp.code # 200
       THEN IF useV1
            THEN LET p == parseStatusBodyV1(st0, resp.body)
                 IN [st |-> [p.st EXCEPT !.StatusCode = 200], err |-> p.err]
            ELSE parseStatusBody(st0, resp.body)
       ELSE LET p == IF useV1 THEN parseStatusBodyV1(st0, resp.body)
                     ELSE parseStatusBody(st0, resp.body)
            IN IF p.err # "nil" THEN [st |-> p.st, err |-> p.err]
               ELSE [st |-> [p.st EXCEPT !.Ok = TRUE], err |-> "nil"]

\* sendOnce of part_000 from the response on.
sendOnceResponse(useV1, resp) ==
    LET st0 == [NewStatus EXCEPT !.StatusCode = resp.code, !.RetryAfter = resp.retryAfter]
    IN IF resp.code # 200
       THEN IF useV1
            THEN LET p == parseStatusBodyV1(st0, resp.body)
                 IN [st |-> [p.st EXCEPT !.StatusCode = 200], err |-> p.err]
            ELSE [st |-> st0, err |-> "nil"]
       ELSE LET p == IF useV1 THEN parseStatusBodyV1(st0, resp.body)
                     ELSE parseStatusBody(st0, resp.body)
            IN IF p.err # "nil" THEN [st |-> p.st, err |-> p.err]
               ELSE [st |-> [p.st EXCEPT !.Ok = TRUE], err |-> "nil"]

\* sendOnce of part_000: its possible outcomes in environment env.
sendOnce(c, msg, h, env) ==
    IF c.UseV1Api
    THEN { LET tok == getToken(c, env)
           IN IF tok.err # "nil" THEN Outcome(Returned(NewStatus, tok.err), <<>>, 1)
              ELSE LET d == clientDo(Request(v1Url(c.V1ProjectID),
                                             "Bearer " \o tok.token, v1Message), env)
                   IN IF d.err # "nil"
                      THEN Outcome(Returned(NewStatus, d.err), d.posted, 1)
                      ELSE LET r == sendOnceResponse(TRUE, d.resp)
                           IN Outcome(Returned(r.st, r.err), d.posted, 1)
           : v1Message \in convertToV1Message(msg) }
    ELSE LET j == toJsonByte(msg, h)
         IN IF j.err # "nil" THEN { Outcome(Returned(NewStatus, j.err), <<>>, 0) }
            ELSE LET d == clientDo(Request(fcm_server_url, apiKeyHeader(c), j.json), env)
                 IN IF d.err # "nil"
                    THEN { Outcome(Returned(NewStatus, d.err), d.posted, 0) }
                    ELSE LET r == sendOnceResponse(FALSE, d.resp)
                         IN { Outcome(Returned(r.st, r.err), d.posted, 0) }

\* sendOnce of fcm.go (the legacy protocol only).
sendOnceFcm(c, msg, h, env) ==
    LET j == toJsonByte(msg, h)
    IN IF j.err # "nil" THEN { Outcome(Returned(NewStatusFcm, j.err), <<>>, 0) }
       ELSE
         LET d == clientDo(Request(fcm_server_url, apiKeyHeader(c), j.json), env)
             st0 == [NewStatusFcm EXCEPT !.StatusCode = d.resp.code,
                                         !.RetryAfter = d.resp.retryAfter]
             p == parseStatusBodyFcm(st0, d.resp.body)
         IN IF d.err # "nil" THEN { Outcome(Returned(NewStatusFcm, d.err), d.posted, 0) }
            ELSE IF d.resp.code # 200 THEN { Outcome(Returned(st0, "nil"), d.posted, 0) }
            ELSE IF p.err # "nil" THEN { Outcome(Returned(p.st, p.err), d.posted, 0) }
            ELSE { Outcome(Returned([p.st EXCEPT !.Ok = TRUE], "nil"), d.posted, 0) }

\* sendViaV1 of fcm.go.
sendViaV1(c, msg, env) ==
    LET tok == getTokenFcm(c, env)
        j   == sendViaV1Payload(msg)
        pid == getProjectID(c)
        d   == clientDo(Request(v1Url(pid.id), "Bearer " \o tok.token, j.json), env)
        p   == parseStatusBodyFcm(NewStatusFcm, d.resp.body)
    IN IF tok.panic THEN { Outcome(Panicked, <<>>, 1) }
       ELSE IF tok.err # "nil" THEN { Outcome(ReturnedNil(tok.err), <<>>, 1) }
       ELSE IF j.err # "nil" THEN { Outcome(ReturnedNil(j.err), <<>>, 1) }
       ELSE IF pid.err # "nil" THEN { Outcome(ReturnedNil(pid.err), <<>>, 1) }
       ELSE IF d.err # "nil" THEN { Outcome(ReturnedNil(d.err), d.posted, 1) }
       ELSE IF p.err # "nil" THEN { Outcome(ReturnedNil(p.err), d.posted, 1) }
       ELSE { Outcome(Returned(p.st, "nil"), d.posted, 1) }

\* FcmClient.Send of either file.
SendOutcomes(c, msg, h, env) ==
    IF c.impl = "part_000" THEN sendOnce(c, msg, h, env)
    ELSE IF c.UseV1Api THEN sendViaV1(c, msg, env)
    ELSE sendOnceFcm(c, msg, h, env)

-----------------------------------------------------------------------------
(* The client as a state machine.  Callers make builder calls and Sends on *)
(* it and may write to their own device list.  A Send runs from its call   *)
(* to its first wait in one step and from each wait to the next in one     *)
(* step; between those steps every other call may run, as the calls of     *)
(* other goroutines do.  One Send is in flight at a time.                  *)

NoPure == [fn |-> "none"]

ThisClient == [kind |-> "client"]

NoReturn == [kind |-> "none"]

\* A Send that is free to meet any environment, as opposed to one that meets
\* the environment of the Send before it.
NoReplay == [token |-> "any"]

\* No Send in flight.  msg and heap are what the most recent Send read of the
\* message and of the backing arrays, token what the token exchange answered
\* it, touched whether a setter has run since it was called.
NoCall ==
    [ pc |-> "idle", msg |-> NewMessage, heap |-> [caller |-> CallerInit, own |-> <<>>],
      token |-> "unasked", replay |-> NoReplay, touched |-> FALSE ]

InitClient(c) ==
    /\ client = c
    /\ Message = NewMessage
    /\ heap = [caller |-> CallerInit, own |-> <<>>]
    /\ ops = 0
    /\ lastOp = [op |-> "NewFcmClient"]
    /\ ret = ThisClient
    /\ wire = <<>>
    /\ tokenCalls = 0
    /\ call = NoCall
    /\ prior = {}

Init ==
    /\ \E c \in Clients : InitClient(c)
    /\ pin = NoPure
    /\ pout = NoPure

\* What every builder call does besides its assignment: it issues nothing and
\* returns the client.  It leaves a Send in flight to itself.
Builder(made) ==
    /\ ops < MaxOps
    /\ ops' = ops + 1
    /\ lastOp' = made
    /\ ret' = ThisClient
    /\ IF call.pc = "idle" THEN wire' = <<>> /\ tokenCalls' = 0
       ELSE UNCHANGED <<wire, tokenCalls>>
    /\ call' = [call EXCEPT !.touched = TRUE]
    /\ prior' = {}
    /\ UNCHANGED <<client, pin, pout>>

NewFcmMsgTo ==
    \E to \in Targets, body \in Payloads :
        /\ Message' = [Message EXCEPT !.To = to, !.Data = body]
        /\ Builder([op |-> "NewFcmMsgTo", to |-> to, body |-> body])
        /\ UNCHANGED heap

NewFcmTopicMsg ==
    \E to \in Topics, body \in StringMapPayloads :
        /\ Message' = [Message EXCEPT !.To = to, !.Data = body]
        /\ Builder([op |-> "NewFcmTopicMsg", to |-> to, body |-> body])
        /\ UNCHANGED heap

SetMsgData ==
    \E body \in Payloads :
        /\ Message' = [Message EXCEPT !.Data = body]
        /\ Builder([op |-> "SetMsgData", body |-> body])
        /\ UNCHANGED heap

NewFcmRegIdsMsg ==
    \E n \in 0..Len(heap.caller), body \in RegIdsPayloads :
        LET r == newDevicesList(heap, CallerList(n))
        IN /\ heap' = r.heap
           /\ Message' = [Message EXCEPT !.RegistrationIds = r.slice, !.Data = body]
           /\ Builder([op |-> "NewFcmRegIdsMsg", n |-> n, body |-> body])

AppendDevices ==
    \E n \in 0..Len(heap.caller) :
        LET r == appendSlice(heap, Message.RegistrationIds, CallerList(n))
        IN /\ heap' = r.heap
           /\ Message' = [Message EXCEPT !.RegistrationIds = r.slice]
           /\ Builder([op |-> "AppendDevices", n |-> n])

SetPriority ==
    \E p \in Priorities :
        /\ Message' = [Message EXCEPT !.Priority = priority(p)]
        /\ Builder([op |-> "SetPriority", p |-> p])
        /\ UNCHANGED heap

\* SetCollapseKey assigning to the target field instead of the collapse key.
SetCollapseKeyIntoTo ==
    \E val \in {"updates"} :
        /\ Message' = [Message EXCEPT !.To = val]
        /\ Builder([op |-> "SetCollapseKey", val |-> val])
        /\ UNCHANGED heap

SetCollapseKey ==
    \E val \in {"updates"} :
        /\ Message' = [Message EXCEPT !.CollapseKey = val]
        /\ Builder([op |-> "SetCollapseKey", val |-> val])
        /\ UNCHANGED heap

SetNotificationPayload ==
    \E payload \in Notifications :
        /\ Message' = [Message EXCEPT !.Notification = payload]
        /\ Builder([op |-> "SetNotificationPayload", payload |-> payload])
        /\ UNCHANGED heap

SetContentAvailable ==
    \E b \in BOOLEAN :
        /\ Message' = [Message EXCEPT !.ContentAvailable = b]
        /\ Builder([op |-> "SetContentAvailable", b |-> b])
        /\ UNCHANGED heap

SetDelayWhileIdle ==
    \E b \in BOOLEAN :
        /\ Message' = [Message EXCEPT !.DelayWhileIdle = b]
        /\ Builder([op |-> "SetDelayWhileIdle", b |-> b])
        /\ UNCHANGED heap

SetTimeToLive ==
    \E ttl \in TTLs :
        /\ Message' = [Message EXCEPT !.TimeToLive = timeToLive(ttl)]
        /\ Builder([op |-> "SetTimeToLive", ttl |-> ttl])
        /\ UNCHANGED heap

SetRestrictedPackageName ==
    \E pkg \in {"com.example"} :
        /\ Message' = [Message EXCEPT !.RestrictedPackageName = pkg]
        /\ Builder([op |-> "SetRestrictedPackageName", pkg |-> pkg])
        /\ UNCHANGED heap

SetDryRun ==
    \E b \in BOOLEAN :
        /\ Message' = [Message EXCEPT !.DryRun = b]
        /\ Builder([op |-> "SetDryRun", b |-> b])
        /\ UNCHANGED heap

SetCondition ==
    \E condition \in {"'a' in topics"} :
        /\ Message' = [Message EXCEPT !.Condition = condition]
        /\ Builder([op |-> "SetCondition", condition |-> condition])
        /\ UNCHANGED heap

\* The caller writes to an element of the list it passed (or will pass).  The
\* writes are taken between the steps above: no step of a Send reads the
\* caller's array, so a write during a Send is a write before or after it.
CallerWrite ==
    \E i \in WriteIndexes, v \in Ids :
        /\ call.pc = "idle"
        /\ heap.caller[i] # v
        /\ heap' = [heap EXCEPT !.caller[i] = v]
        /\ lastOp' = [op |-> "CallerWrite"]
        /\ ret' = NoReturn
        /\ wire' = <<>>
        /\ tokenCalls' = 0
        /\ UNCHANGED <<client, Message, ops, call, prior, pin, pout>>

\* Whether Send reads the message before its first wait: sendOnce of either
\* file builds the payload first, sendViaV1 of fcm.go asks for the token first.
ReadsFirst == client.impl = "part_000" \/ ~client.UseV1Api

\* Whether getToken gets as far as the token exchange (tokenSource.Token()):
\* it returns before it when the JWT configuration rejects the credentials.
TokenExchange ==
    IF client.impl = "part_000" THEN getToken(client, ProbeEnv).err = "nil"
    ELSE getTokenFcm(client, ProbeEnv).err = "nil"

\* The requests the code hands to the HTTP client for what it read, one
\* sequence for each way the payload can come out; the empty sequence where
\* it returns before the POST.
Requests(msg, h) == { o.wire : o \in SendOutcomes(client, msg, h, ProbeEnv) }

\* The answer a of the environment is one the Send in flight can get: any if
\* it is free, the one the Send before it got otherwise.
Answers(replay, field, a) == IF replay = NoReplay THEN TRUE ELSE replay[field] = a

\* Send returns what the code returns for what it read (msg, h) and what the
\* environment answered (env).
Return(msg, h, env) ==
    \E o \in SendOutcomes(client, msg, h, env) :
        /\ wire # <<>> => (o.wire # <<>> /\ o.wire[1] = wire[1])
        /\ ret' = o.ret
        /\ wire' = o.wire
        /\ tokenCalls' = o.tokenCalls
        /\ lastOp' = [op |-> "Send", env |-> env]
        /\ call' = [ pc |-> "idle", msg |-> msg, heap |-> h, token |-> env.token,
                     replay |-> NoReplay, touched |-> call.touched ]

\* The request is handed to the HTTP client, and Send waits in client.Do.
Post(msg, h, token, replay) ==
    \E reqs \in Requests(msg, h) :
        /\ reqs # <<>>
        /\ wire' = <<reqs[1]>>
        /\ lastOp' = [op |-> "clientDo"]
        /\ call' = [ pc |-> "clientDo", msg |-> msg, heap |-> h, token |-> token,
                     replay |-> replay, touched |-> call.touched ]
        /\ UNCHANGED <<ret, tokenCalls>>

\* Send is called and runs to its first wait.  The versioned Send of part_000
\* builds its payload from the message and waits for the token; the one of
\* fcm.go waits for the token before it has read the message; a legacy Send
\* serializes the message and waits for the response.  Where the payload
\* cannot be serialized or the credentials are rejected, it returns at once.
Send ==
    /\ call.pc = "idle"
    /\ \E replay \in {NoReplay} \cup (IF lastOp.op = "Send" THEN {lastOp.env} ELSE {}) :
          /\ IF replay = NoReplay THEN ops < MaxOps
             ELSE MaxOps <= ops /\ ops < MaxOps + MaxResends
          /\ IF client.UseV1Api /\ TokenExchange
             THEN /\ call' = [ NoCall EXCEPT !.pc = "getToken", !.replay = replay,
                                             !.msg = IF ReadsFirst THEN Message ELSE @,
                                             !.heap = IF ReadsFirst THEN heap ELSE @ ]
                  /\ lastOp' = [op |-> "getToken"]
                  /\ ret' = NoReturn
                  /\ wire' = <<>>
                  /\ tokenCalls' = 1
             ELSE IF <<>> \in Requests(Message, heap)
             THEN \E o \in SendOutcomes(client, Message, heap, NoEnv) :
                     /\ ret' = o.ret
                     /\ wire' = o.wire
                     /\ tokenCalls' = o.tokenCalls
                     /\ lastOp' = [op |-> "Send", env |-> NoEnv]
                     /\ call' = [NoCall EXCEPT !.msg = Message, !.heap = heap]
             ELSE /\ \E reqs \in Requests(Message, heap) :
                        /\ wire' = <<reqs[1]>>
                        /\ lastOp' = [op |-> "clientDo"]
                        /\ call' = [ NoCall EXCEPT !.pc = "clientDo", !.replay = replay,
                                                   !.msg = Message, !.heap = heap ]
                  /\ ret' = NoReturn
                  /\ tokenCalls' = 0
    /\ prior' = IF call.touched THEN {}
                ELSE IF lastOp.op = "Send" /\ lastOp.env.net = "ok"
                THEN prior \cup { wire[i].body : i \in 1..Len(wire) }
                ELSE prior
    /\ ops' = ops + 1
    /\ UNCHANGED <<client, Message, heap, pin, pout>>

\* The token exchange answers.  Without a token Send returns (sendOnce) or
\* fails on the token it did not get (sendViaV1).  With one, sendViaV1 reads
\* the message now and serializes it; either Send then posts its request.
TokenReturns ==
    /\ call.pc = "getToken"
    /\ \E t \in {"ok", "fail"} :
          /\ Answers(call.replay, "token", t)
          /\ LET msg == IF ReadsFirst THEN call.msg ELSE Message
                 h   == IF ReadsFirst THEN call.heap ELSE heap
                 env == [NoEnv EXCEPT !.token = t]
             IN IF t = "fail" \/ <<>> \in Requests(msg, h)
                THEN Return(msg, h, env)
                ELSE Post(msg, h, t, call.replay)
    /\ UNCHANGED <<client, Message, heap, ops, prior, pin, pout>>

\* client.Do returns: with a transport error, which Send returns, or with the
\* response, whose body Send goes on to read.
DoReturns ==
    /\ call.pc = "clientDo"
    /\ \/ /\ Answers(call.replay, "net", "doErr")
          /\ Return(call.msg, call.heap,
                    [token |-> call.token, net |-> "doErr", resp |-> NoResponse])
       \/ /\ \E n \in {"ok", "readErr"} : Answers(call.replay, "net", n)
          /\ call' = [call EXCEPT !.pc = "ReadAll"]
          /\ lastOp' = [op |-> "ReadAll"]
          /\ UNCHANGED <<ret, wire, tokenCalls>>
    /\ UNCHANGED <<client, Message, heap, ops, prior, pin, pout>>

\* ioutil.ReadAll returns: with a transport error, which Send returns, or
\* with the body, from which Send makes the status it returns.
ReadAllReturns ==
    /\ call.pc = "ReadAll"
    /\ \/ /\ Answers(call.replay, "net", "readErr")
          /\ Return(call.msg, call.heap,
                    [token |-> call.token, net |-> "readErr", resp |-> NoResponse])
       \/ \E r \in Responses :
             /\ Answers(call.replay, "net", "ok")
             /\ Answers(call.replay, "resp", r)
             /\ Return(call.msg, call.heap,
                       [token |-> call.token, net |-> "ok", resp |-> r])
    /\ UNCHANGED <<client, Message, heap, ops, prior, pin, pout>>

Next ==
    \/ NewFcmMsgTo
    \/ NewFcmTopicMsg
    \/ SetMsgData
    \/ NewFcmRegIdsMsg
    \/ AppendDevices
    \/ SetPriority
    \/ SetCollapseKey
    \/ SetNotificationPayload
    \/ SetContentAvailable
    \/ SetDelayWhileIdle
    \/ SetTimeToLive
    \/ SetRestrictedPackageName
    \/ SetDryRun
    \/ SetCondition
    \/ CallerWrite
    \/ Send
    \/ TokenReturns
    \/ DoReturns
    \/ ReadAllReturns

Spec == Init /\ [][Next]_vars

-----------------------------------------------------------------------------
(* IsTimeout as a function of an arbitrary ResponseStatus.                 *)

ResultMaps ==
    { Empty,
      "error" :> "Unavailable",
      "error" :> "InternalServerError",
      "error" :> "InvalidRegistration",
      "message_id" :> "Unavailable",
      ("error" :> "NotRegistered") @@ ("message_id" :> "InternalServerError") }

TimeoutCodes == { 0, 199, 200, 201, 404, 499, 500, 503 }

TimeoutInputs ==
    { [NewStatus EXCEPT !.StatusCode = c, !.Results = r] :
        c \in TimeoutCodes, r \in SeqsUpTo(ResultMaps, MaxResults) }

InitIsTimeout ==
    /\ InitClient(NewFcmClient("AIza", Creds(TRUE, TRUE, "")))
    /\ pin \in { [fn |-> "IsTimeout", st |-> st] : st \in TimeoutInputs }
    /\ pout = NoPure

CallIsTimeout ==
    /\ pin.fn = "IsTimeout"
    /\ pout = NoPure
    /\ pout' = [fn |-> "IsTimeout", out |-> IsTimeout(pin.st)]
    /\ UNCHANGED <<clientVars, pin>>

SpecIsTimeout == InitIsTimeout /\ [][CallIsTimeout]_vars

-----------------------------------------------------------------------------
(* flattenMap as a function of an arbitrary data tree.                     *)

ArrElems == { Num(10), Num(20), Str("x"), Obj("b" :> Num(1)), Arr(<<Num(1)>>) }

Arrays == { Arr(items) : items \in SeqsUpTo(ArrElems, MaxArrLen) }

Scalars == { Str("x"), Str(""), Num(1), Bool(TRUE), Null }

InnerObjects ==
    { Obj(Empty) } \cup { Obj(("b" :> Num(1)) @@ ("c" :> a)) : a \in Arrays }

FlattenInputs ==
    { "a" :> v : v \in Scalars \cup Arrays \cup InnerObjects }
    \cup { Empty,
           AlertTree.kv,
           ("a" :> Obj("b" :> Num(2))) @@ ("a.b" :> Num(1)),
           ("c" :> Arr(<<Num(10)>>)) @@ ("c.0" :> Str("x")) }

InitFlatten ==
    /\ InitClient(NewFcmClient("AIza", Creds(TRUE, TRUE, "p")))
    /\ pin \in { [fn |-> "flattenMap", input |-> i] : i \in FlattenInputs }
    /\ pout = NoPure

\* v1Data := make(map[string]string); flattenMap("", data, v1Data)
CallFlatten ==
    /\ pin.fn = "flattenMap"
    /\ pout = NoPure
    /\ \E o \in flattenMap("", pin.input, Empty) :
          pout' = [fn |-> "flattenMap", out |-> o]
    /\ UNCHANGED <<clientVars, pin>>

SpecFlatten == InitFlatten /\ [][CallFlatten]_vars

-----------------------------------------------------------------------------
(* The legacy wire format as a function of an arbitrary message: the       *)
(* message is serialized and the JSON is decoded into a fresh FcmMsg.      *)

\* A notification with every field set.
FullNotification ==
    [ Title |-> "t", Body |-> "b", Icon |-> "i", Sound |-> "s", Badge |-> "3", Tag |-> "g",
      Color |-> "#fff", ClickAction |-> "open", BodyLocKey |-> "blk", BodyLocArgs |-> "bla",
      TitleLocKey |-> "tlk", TitleLocArgs |-> "tla", AndroidChannelID |-> "ch" ]

\* The heap after NewFcmRegIdsMsg on the whole of the caller's list.
BuiltHeap == [caller |-> CallerInit, own |-> CallerInit]

\* Messages the builder calls can leave on a client, the one with every
\* optional field set among them.
BuiltMessages ==
    { [ Data                  |-> d,
        To                    |-> to,
        RegistrationIds       |-> ids,
        CollapseKey           |-> IF strings THEN "updates" ELSE "",
        Priority              |-> p,
        Notification          |-> n,
        ContentAvailable      |-> flags[1],
        DelayWhileIdle        |-> flags[2],
        TimeToLive            |-> ttl,
        RestrictedPackageName |-> IF strings THEN "com.example" ELSE "",
        DryRun                |-> flags[3],
        Condition             |-> IF strings THEN "'a' in topics" ELSE "" ] :
      d \in Payloads \ {ChanData},
      to \in {"", "tok"},
      ids \in { NilSlice } \cup { [arr |-> "own", len |-> n] : n \in {0, Len(CallerInit)} },
      strings \in BOOLEAN,
      p \in {"", Priority_HIGH, Priority_NORMAL},
      n \in { NoNotification, FullNotification },
      flags \in { <<FALSE, FALSE, FALSE>>, <<TRUE, FALSE, TRUE>>, <<TRUE, TRUE, TRUE>> },
      ttl \in { 0, -1, 3600, MAX_TTL } }

InitRoundTrip ==
    /\ InitClient(NewFcmClient("AIza", Creds(TRUE, TRUE, "")))
    /\ pin \in { [fn |-> "roundTrip", msg |-> m, heap |-> BuiltHeap] : m \in BuiltMessages }
    /\ pout = NoPure

\* jsonByte, _ := msg.toJsonByte(); json.Unmarshal(jsonByte, &parsed)
CallRoundTrip ==
    /\ pin.fn = "roundTrip"
    /\ pout = NoPure
    /\ LET j == toJsonByte(pin.msg, pin.heap)
       IN pout' = [fn |-> "roundTrip", err |-> j.err, parsed |-> unmarshalMsg(j.json)]
    /\ UNCHANGED <<clientVars, pin>>

SpecRoundTrip == InitRoundTrip /\ [][CallRoundTrip]_vars

-----------------------------------------------------------------------------
(* convertToV1Message as a function of an arbitrary message.               *)

\* The payloads the alert shim is tried on: no payload, a payload without
\* alert, alert as a non-empty string, as the empty string, as a number, and
\* a map[string]string with alert.
AlertPayloads ==
    { NilData,
      [dyn |-> "map[string]interface{}", val |-> NestedTree],
      [dyn |-> "map[string]interface{}", val |-> AlertTree],
      [dyn |-> "map[string]interface{}", val |-> Obj("alert" :> Str(""))],
      [dyn |-> "map[string]interface{}", val |-> Obj("alert" :> Num(1))],
      [dyn |-> "map[string]string", val |-> Obj("alert" :> Str("hi"))] }

ConvertInputs ==
    { [NewMessage EXCEPT !.Data = d, !.To = to, !.Notification = n, !.TimeToLive = ttl,
                         !.Priority = p] :
      d \in AlertPayloads,
      to \in {"", "tok"},
      n \in { NoNotification, FullNotification } \cup Notifications,
      ttl \in { 0, 3600 },
      p \in { "", Priority_HIGH } }

InitConvert ==
    /\ InitClient(NewFcmClient("AIza", Creds(TRUE, TRUE, "p")))
    /\ pin \in { [fn |-> "convertToV1Message", msg |-> m] : m \in ConvertInputs }
    /\ pout = NoPure

\* v1Message := this.convertToV1Message()
CallConvert ==
    /\ pin.fn = "convertToV1Message"
    /\ pout = NoPure
    /\ \E v1Message \in convertToV1Message(pin.msg) :
          pout' = [fn |-> "convertToV1Message", out |-> v1Message]
    /\ UNCHANGED <<clientVars, pin>>

SpecConvert == InitConvert /\ [][CallConvert]_vars

-----------------------------------------------------------------------------
(* Properties.                                                             *)

\* The most recent call was a Send that got a response from the server.
GotResponse ==
    /\ lastOp.op = "Send"
    /\ Len(wire) >= 1
    /\ lastOp.env.net = "ok"

\* The most recent call returned a (non-nil) ResponseStatus.
HasStatus == ret.kind = "status" /\ ~ret.nil

\* C1: a versioned send of part_000 whose response body carries the error
\* object {404, "Requested entity was not found.", "NOT_FOUND"} returns
\* ok=false, httpStatusCode=200, fail=1, results=[{"error":"NOT_FOUND"}] and
\* err = the message, whatever the transport status was (200 included).
C1_V1ErrorNormalized ==
    (GotResponse /\ client.impl = "part_000" /\ client.UseV1Api
       /\ lastOp.env.resp.body = BodyV1Error)
    => /\ HasStatus
       /\ ret.st.Ok = FALSE
       /\ ret.st.StatusCode = 200
       /\ ret.st.Fail = 1
       /\ ret.st.Results = << "error" :> "NOT_FOUND" >>
       /\ ret.st.Err = Str("Requested entity was not found.")

\* C2: a versioned send whose response body is {"name": N}, in either
\* implementation, returns ok=true, httpStatusCode=200, success=1,
\* results=[{"message_id": N}] and messageId=1.
C2_V1SuccessNormalized ==
    (GotResponse /\ client.UseV1Api /\ lastOp.env.resp.body = BodyName)
    => /\ HasStatus
       /\ ret.st.Ok = TRUE
       /\ ret.st.StatusCode = 200
       /\ ret.st.Success = 1
       /\ ret.st.Results = << "message_id" :> "projects/p/messages/123" >>
       /\ ret.st.MsgId = 1

\* C3: in every ResponseStatus Send returns, ok is true only if the exchange
\* completed and no delivery error is reported: a status with a non-zero
\* failure count, a result with key "error" or a non-empty err has ok=false.
C3_OkOnlyWithoutDeliveryError ==
    (lastOp.op = "Send" /\ HasStatus /\ ret.st.Ok)
    => /\ GotResponse
       /\ ret.st.Fail = 0
       /\ \A i \in 1..Len(ret.st.Results) : "error" \notin DOMAIN ret.st.Results[i]
       /\ ret.st.Err \in { Str(""), Null }

\* C4: IsTimeout is true exactly when httpStatusCode >= 500, or
\* httpStatusCode = 200 and some result map has key "error" with value
\* "Unavailable" or "InternalServerError"; the three cases of the spec included.
C4_IsTimeoutExact ==
    pout.fn = "IsTimeout" =>
      /\ pout.out <=>
            \/ pin.st.StatusCode >= 500
            \/ /\ pin.st.StatusCode = 200
               /\ \E i \in 1..Len(pin.st.Results) :
                     /\ "error" \in DOMAIN pin.st.Results[i]
                     /\ pin.st.Results[i]["error"] \in {"Unavailable", "InternalServerError"}
      /\ (pin.st.StatusCode = 503 => pout.out = TRUE)
      /\ (pin.st.StatusCode = 200 /\ pin.st.Results = << "error" :> "Unavailable" >>
            => pout.out = TRUE)
      /\ (pin.st.StatusCode = 200 /\ pin.st.Results = << "error" :> "InvalidRegistration" >>
            => pout.out = FALSE)

\* IsTimeout was applied to a 200 status whose second result is a retryable error.
C4_Witness ==
    /\ pout.fn = "IsTimeout"
    /\ pin.st.StatusCode = 200
    /\ pin.st.Results = << "message_id" :> "Unavailable", "error" :> "InternalServerError" >>
    /\ pout.out = TRUE

\* The time-to-live a request carries: time_to_live of a legacy body (left
\* out of it when 0), message.android.ttl of a versioned body, "none" where
\* a versioned body has no such member.
WireTTL(req) ==
    IF "message" \in DOMAIN req.body.kv
    THEN LET android == req.body.kv["message"].kv["android"].kv
         IN IF "ttl" \in DOMAIN android THEN android["ttl"] ELSE Str("none")
    ELSE IF "time_to_live" \in DOMAIN req.body.kv THEN req.body.kv["time_to_live"]
         ELSE Num(0)

\* C5: the stored time-to-live never exceeds MAX_TTL; SetTimeToLive(ttl)
\* stores MAX_TTL when ttl > MAX_TTL and ttl itself otherwise; and every
\* request of a Send carries the stored time-to-live as the Send read it,
\* unclamped and unchanged: time_to_live = n in a legacy body,
\* message.android.ttl = "<n>s" in a versioned one (a stored 0 may be left out).
C5_TTLClampedAtSetTime ==
    /\ Message.TimeToLive <= 2419200
    /\ lastOp.op = "SetTimeToLive" =>
          /\ lastOp.ttl > 2419200 => Message.TimeToLive = 2419200
          /\ lastOp.ttl <= 2419200 => Message.TimeToLive = lastOp.ttl
    /\ \A i \in 1..Len(wire) :
          IF "message" \in DOMAIN wire[i].body.kv
          THEN \/ WireTTL(wire[i]) = Str(ToString(call.msg.TimeToLive) \o "s")
               \/ call.msg.TimeToLive = 0 /\ WireTTL(wire[i]) = Str("none")
          ELSE WireTTL(wire[i]) = Num(call.msg.TimeToLive)

\* C6: NewFcmRegIdsMsg(L, _) stores the elements of L as they are at the
\* call, AppendDevices(L2) stores the old list followed by the elements of
\* L2, in order and with duplicates, and a write of the caller's to its list
\* leaves the stored list alone.
C6_DeviceListCopied ==
    [][ /\ lastOp'.op = "NewFcmRegIdsMsg" =>
              RegIds' = SubSeq(heap.caller, 1, lastOp'.n)
        /\ lastOp'.op = "AppendDevices" =>
              RegIds' = RegIds \o SubSeq(heap.caller, 1, lastOp'.n)
        /\ lastOp'.op = "CallerWrite" => RegIds' = RegIds ]_vars

\* The list was built from <<d1, d2>>, appended to, and the caller has since
\* overwritten its own first element.
C6_Witness ==
    /\ lastOp.op = "CallerWrite"
    /\ heap.caller = << "d2", "d2" >>
    /\ RegIds = << "d1", "d2", "d1", "d2" >>

\* C7: a legacy send that gets a status other than 200 returns a nil error
\* and a ResponseStatus with httpStatusCode and retryAfter set and nothing
\* else: ok=false, zero counts, no results, no err, whatever the body holds.
C7_LegacyNon200 ==
    (GotResponse /\ ~client.UseV1Api /\ lastOp.env.resp.code # 200)
    => /\ HasStatus
       /\ ret.err = "nil"
       /\ ret.st.Ok = FALSE
       /\ ret.st.StatusCode = lastOp.env.resp.code
       /\ ret.st.RetryAfter = lastOp.env.resp.retryAfter
       /\ ret.st.MulticastId = 0
       /\ ret.st.Success = 0
       /\ ret.st.Fail = 0
       /\ ret.st.Canonical_ids = 0
       /\ ret.st.MsgId = 0
       /\ ret.st.Results = <<>>
       /\ ret.st.Err \in { Str(""), Null }

\* A legacy send got 503 with a Retry-After header and a body that would
\* parse into a failure report.
C7_Witness ==
    /\ GotResponse
    /\ ~client.UseV1Api
    /\ lastOp.env.resp = [code |-> 503, retryAfter |-> "120s", body |-> BodyLegacyFail]
    /\ HasStatus
    /\ ret.st.StatusCode = 503
    /\ ret.st.RetryAfter = "120s"

RECURSIVE LeafEntries(_, _)
\* The scalar leaves of a data tree below path: <<dotted path, text>> for each,
\* the path running through object keys and array indices at every depth.
LeafEntries(path, v) ==
    LET sub(k) == IF path = "" THEN k ELSE path \o "." \o k
    IN CASE v.t = "obj" -> UNION { LeafEntries(sub(k), v.kv[k]) : k \in DOMAIN v.kv }
         [] v.t = "arr" ->
               UNION { LeafEntries(sub(ToString(i - 1)), v.items[i]) : i \in 1..Len(v.items) }
         [] v.t = "str" -> { <<path, v.s>> }
         [] OTHER       -> { <<path, fmtV(v)>> }

RECURSIVE LeafCount(_)
\* The number of scalar leaves of a data tree.
LeafCount(v) ==
    LET Sum(f) == LET RECURSIVE S(_)
                      S(n) == IF n = 0 THEN 0 ELSE f[n] + S(n - 1)
                  IN S(Len(f))
    IN CASE v.t = "obj" ->
              LET ks == SortedKeys(DOMAIN v.kv)
              IN Sum([i \in 1..Len(ks) |-> LeafCount(v.kv[ks[i]])])
         [] v.t = "arr" -> Sum([i \in 1..Len(v.items) |-> LeafCount(v.items[i])])
         [] OTHER       -> 1

\* C8: flattening a data tree gives exactly one entry per scalar leaf, keyed
\* by the '.'-joined path of object keys and array indices from the root to
\* the leaf at any depth (objects and arrays inside arrays included), a
\* string leaf verbatim and any other scalar in its default formatting.
C8_OneEntryPerLeaf ==
    pout.fn = "flattenMap" =>
      LET leaves == LeafEntries("", Obj(pin.input))
      IN /\ DOMAIN pout.out = { e[1] : e \in leaves }
         /\ \A e \in leaves : pout.out[e[1]] = e[2]
         /\ Cardinality(DOMAIN pout.out) = LeafCount(Obj(pin.input))

\* The data map of a versioned request of part_000, as a map of strings.
V1DataOf(req, where) ==
    LET message == req.body.kv["message"].kv
        d == IF where = "android" THEN message["android"].kv["data"].kv
             ELSE message["data"].kv
    IN [k \in DOMAIN d |-> d[k].s]

\* C9: for every map payload set through the builder, message.data and
\* message.android.data of the versioned payload are the same map: the
\* flattened view of the payload Send read plus the key "data" holding the
\* JSON text of the whole payload.
C9_V1DataIsFlattenedPayload ==
    (client.impl = "part_000" /\ client.UseV1Api /\ Len(wire) = 1
       /\ call.msg.Data.dyn \in {"map[string]interface{}", "map[string]string"})
    => /\ V1DataOf(wire[1], "message") = V1DataOf(wire[1], "android")
       /\ \E flat \in flattenMap("", call.msg.Data.val.kv, Empty) :
             V1DataOf(wire[1], "message") = Put(flat, "data", jsonMarshal(call.msg.Data.val))

\* C10: a Send issues at most one POST and asks for a token at most once, at
\* every point from its call to its return; it issues no POST before it has
\* the token or when serializing the payload or acquiring the token fails;
\* and whatever the request's outcome, there is no second request.
C10_AtMostOnePost ==
    /\ Len(wire) <= 1
    /\ tokenCalls <= 1
    /\ (call.pc = "idle" /\ lastOp.op # "Send") => wire = <<>>
    /\ call.pc = "getToken" => wire = <<>>
    /\ lastOp.op = "Send" =>
          /\ ret.kind = "panic" => wire = <<>>
          /\ ret.kind = "status" /\ ret.err \in {"marshal", "auth"} => wire = <<>>
          /\ \A i \in 1..Len(wire) : wire[i].method = "POST"

\* A Send got a 503, which IsTimeout reports as retryable, after one POST.
C10_Witness ==
    /\ GotResponse
    /\ lastOp.env.resp.code = 503
    /\ HasStatus
    /\ IsTimeout(ret.st)
    /\ Len(wire) = 1


\* C11: a message is consumed by the Send that transmits it: when a Send has
\* transmitted a message with content and another Send follows, with no
\* setter call since the first was called, the second Send does not transmit
\* that content again.
C11_MessageConsumedOnce ==
    \A i \in 1..Len(wire) :
       call.msg # NewMessage => wire[i].body \notin prior

\* The request r as the legacy protocol has it / as the versioned protocol
\* has it, for the message as the Send read it.
IsLegacyRequest(r, msg, h) ==
    /\ r.method = "POST"
    /\ r.url = "https://fcm.googleapis.com/fcm/send"
    /\ r.Authorization = "key=" \o client.ApiKey
    /\ "message" \notin DOMAIN r.body.kv
    /\ r.body = toJsonByte(msg, h).json

IsVersionedRequest(r, msg) ==
    /\ r.method = "POST"
    /\ r.url = "https://fcm.googleapis.com/v1/projects/" \o client.creds.ProjectID
                  \o "/messages:send"
    /\ r.Authorization = "Bearer " \o AccessToken
    /\ DOMAIN r.body.kv = {"message"}
    /\ r.body.kv["message"].kv["token"] = Str(msg.To)
    /\ "android" \in DOMAIN r.body.kv["message"].kv

\* C12: every request a Send issues is the request of the protocol selected
\* for the client (legacy: POST to the legacy endpoint, Authorization "key=" +
\* ApiKey, the message's direct JSON; versioned: POST to
\* .../projects/<project_id>/messages:send, Authorization "Bearer " + token,
\* the nested payload), never a mix, and no call changes the selection.
C12_RequestMatchesProtocol ==
    [][ /\ client' = client
        /\ \A i \in 1..Len(wire') :
              IF client.UseV1Api THEN IsVersionedRequest(wire'[i], call'.msg)
              ELSE IsLegacyRequest(wire'[i], call'.msg, call'.heap) ]_vars

\* A versioned client built a message and sent it with a bearer token; a
\* resend followed.
C12_Witness ==
    /\ lastOp.op = "Send"
    /\ client.UseV1Api
    /\ ops = 3
    /\ Message.To = "tok"
    /\ Len(wire) = 1
    /\ wire[1].Authorization = "Bearer ya29.t"

\* The token cannot be acquired: the credentials are malformed or rejected by
\* the JWT configuration, or the token exchange fails.
TokenFails ==
    \/ ~client.creds.wf
    \/ ~client.creds.valid
    \/ lastOp.env.token = "fail"

\* C13: a versioned Send that cannot acquire the token returns that error to
\* its caller, in both implementations: it returns (it does not end any other
\* way), the error is the token error, no POST was issued and the token was
\* asked for once.
C13_TokenFailureReturned ==
    (lastOp.op = "Send" /\ client.UseV1Api /\ TokenFails)
    => /\ ret.kind = "status"
       /\ ret.err = "auth"
       /\ wire = <<>>
       /\ tokenCalls = 1

\* C14: a versioned Send whose credentials have no project id, or none that
\* can be read, returns an error and issues no request, also when the token
\* endpoint would hand out a token.
C14_MissingProjectIdFails ==
    (lastOp.op = "Send" /\ client.UseV1Api /\ lastOp.env.token = "ok"
       /\ (client.creds.ProjectID = "" \/ ~client.creds.wf))
    => /\ ret.kind = "status"
       /\ ret.err # "nil"
       /\ wire = <<>>

\* C15: when the response body cannot be parsed (legacy: status 200;
\* versioned: any status), Send returns the parse error with a non-nil
\* ResponseStatus that has ok=false, the transport status code and the raw
\* Retry-After value.
C15_ParseErrorKeepsStatus ==
    (GotResponse /\ lastOp.env.resp.body = Malformed
       /\ (client.UseV1Api \/ lastOp.env.resp.code = 200))
    => /\ HasStatus
       /\ ret.err = "parse"
       /\ ret.st.Ok = FALSE
       /\ ret.st.StatusCode = lastOp.env.resp.code
       /\ ret.st.RetryAfter = lastOp.env.resp.retryAfter

BuilderOps ==
    { "NewFcmMsgTo", "NewFcmTopicMsg", "NewFcmRegIdsMsg", "SetMsgData", "AppendDevices",
      "SetPriority", "SetCollapseKey", "SetNotificationPayload", "SetContentAvailable",
      "SetDelayWhileIdle", "SetTimeToLive", "SetRestrictedPackageName", "SetDryRun",
      "SetCondition" }

\* The message field a setter is named for.
OwnField(op) ==
    CASE op \in {"NewFcmMsgTo", "NewFcmTopicMsg"}      -> "To"
      [] op \in {"NewFcmRegIdsMsg", "AppendDevices"}   -> "RegistrationIds"
      [] op = "SetMsgData"                             -> "Data"
      [] op = "SetPriority"                            -> "Priority"
      [] op = "SetCollapseKey"                         -> "CollapseKey"
      [] op = "SetNotificationPayload"                 -> "Notification"
      [] op = "SetContentAvailable"                    -> "ContentAvailable"
      [] op = "SetDelayWhileIdle"                      -> "DelayWhileIdle"
      [] op = "SetTimeToLive"                          -> "TimeToLive"
      [] op = "SetRestrictedPackageName"               -> "RestrictedPackageName"
      [] op = "SetDryRun"                              -> "DryRun"
      [] op = "SetCondition"                           -> "Condition"

\* The message fields whose content a step changes (the device list by its
\* elements).
ChangedFields ==
    { f \in (DOMAIN Message) \ {"RegistrationIds"} : Message'[f] # Message[f] }
    \cup (IF RegIds' # RegIds THEN {"RegistrationIds"} ELSE {})

\* C16 as stated: every setter changes its one field and no other, leaves
\* the credentials and the protocol selection alone and returns the client.
C16_SetterChangesOneField ==
    [][ lastOp'.op \in BuilderOps =>
           /\ ChangedFields \subseteq { OwnField(lastOp'.op) }
           /\ client' = client
           /\ ret' = ThisClient ]_vars

\* C16 amended: the three message constructors set the data payload besides
\* their target (NewFcmMsgTo and NewFcmTopicMsg: To and Data; NewFcmRegIdsMsg:
\* RegistrationIds and Data); every other setter changes its one field only;
\* all of them leave the rest of the message, the credentials and the
\* protocol selection alone and return the client.
C16_SetterChangesOwnFields ==
    [][ lastOp'.op \in BuilderOps =>
           /\ ChangedFields \subseteq
                 { OwnField(lastOp'.op) }
                 \cup (IF lastOp'.op \in {"NewFcmMsgTo", "NewFcmTopicMsg", "NewFcmRegIdsMsg"}
                       THEN {"Data"} ELSE {})
           /\ client' = client
           /\ ret' = ThisClient ]_vars

\* A message with a target and a payload had its collapse key set: target and
\* payload are as before.
C16_Witness ==
    /\ lastOp.op = "SetCollapseKey"
    /\ Message.CollapseKey = "updates"
    /\ Message.To = "tok"
    /\ Message.Data.val = NestedTree
    /\ ret = ThisClient


\* C17: serializing a message to the legacy wire format and parsing the JSON
\* back gives the same value for every field of the legacy schema: to, the
\* registration ids in order, the data content, collapse key, priority, the
\* notification fields, time-to-live, the three flags, restricted package
\* name and condition; in particular for the message with every field set.
C17_LegacyRoundTrip ==
    pout.fn = "roundTrip" =>
      /\ pout.err = "nil"
      /\ pout.parsed.To = pin.msg.To
      /\ pout.parsed.RegistrationIds = Elems(pin.heap, pin.msg.RegistrationIds)
      /\ pout.parsed.Data = pin.msg.Data.val
      /\ pout.parsed.CollapseKey = pin.msg.CollapseKey
      /\ pout.parsed.Priority = pin.msg.Priority
      /\ pout.parsed.Notification = pin.msg.Notification
      /\ pout.parsed.TimeToLive = pin.msg.TimeToLive
      /\ pout.parsed.ContentAvailable = pin.msg.ContentAvailable
      /\ pout.parsed.DelayWhileIdle = pin.msg.DelayWhileIdle
      /\ pout.parsed.RestrictedPackageName = pin.msg.RestrictedPackageName
      /\ pout.parsed.DryRun = pin.msg.DryRun
      /\ pout.parsed.Condition = pin.msg.Condition

\* The message with every optional field set went through the round trip.
C17_Witness ==
    /\ pout.fn = "roundTrip"
    /\ pin.msg.To = "tok"
    /\ pin.msg.Data.val = NestedTree
    /\ pin.msg.Notification = FullNotification
    /\ pin.msg.Condition # ""
    /\ pin.msg.Priority = "high"
    /\ pin.msg.TimeToLive = 2419200
    /\ pin.msg.DryRun /\ pin.msg.DelayWhileIdle /\ pin.msg.ContentAvailable
    /\ pout.parsed.RegistrationIds = << "d1", "d2" >>
    /\ pout.parsed.Notification.TitleLocKey = "tlk"

\* C18 as stated: every setter but SetTimeToLive stores the value it is given
\* as it is; SetPriority(p) stores p for every string p.
C18_SettersStoreGivenValue ==
    /\ lastOp.op = "SetPriority" => Message.Priority = lastOp.p
    /\ lastOp.op \in {"NewFcmMsgTo", "NewFcmTopicMsg"} =>
          Message.To = lastOp.to /\ Message.Data = lastOp.body
    /\ lastOp.op \in {"SetMsgData", "NewFcmRegIdsMsg"} => Message.Data = lastOp.body
    /\ lastOp.op = "SetCollapseKey" => Message.CollapseKey = lastOp.val
    /\ lastOp.op = "SetNotificationPayload" => Message.Notification = lastOp.payload
    /\ lastOp.op = "SetContentAvailable" => Message.ContentAvailable = lastOp.b
    /\ lastOp.op = "SetDelayWhileIdle" => Message.DelayWhileIdle = lastOp.b
    /\ lastOp.op = "SetRestrictedPackageName" => Message.RestrictedPackageName = lastOp.pkg
    /\ lastOp.op = "SetDryRun" => Message.DryRun = lastOp.b
    /\ lastOp.op = "SetCondition" => Message.Condition = lastOp.condition

\* C18 amended: SetPriority stores "high" when given "high" and "normal" for
\* every other string; SetTimeToLive clamps; every other setter stores the
\* value it is given as it is.
C18_SettersStoreOrNormalize ==
    /\ lastOp.op = "SetPriority" =>
          Message.Priority = (IF lastOp.p = "high" THEN "high" ELSE "normal")
    /\ lastOp.op \in {"NewFcmMsgTo", "NewFcmTopicMsg"} =>
          Message.To = lastOp.to /\ Message.Data = lastOp.body
    /\ lastOp.op \in {"SetMsgData", "NewFcmRegIdsMsg"} => Message.Data = lastOp.body
    /\ lastOp.op = "SetCollapseKey" => Message.CollapseKey = lastOp.val
    /\ lastOp.op = "SetNotificationPayload" => Message.Notification = lastOp.payload
    /\ lastOp.op = "SetContentAvailable" => Message.ContentAvailable = lastOp.b
    /\ lastOp.op = "SetDelayWhileIdle" => Message.DelayWhileIdle = lastOp.b
    /\ lastOp.op = "SetRestrictedPackageName" => Message.RestrictedPackageName = lastOp.pkg
    /\ lastOp.op = "SetDryRun" => Message.DryRun = lastOp.b
    /\ lastOp.op = "SetCondition" => Message.Condition = lastOp.condition

\* SetPriority was given a string that is neither "high" nor "normal".
C18_Witness ==
    /\ lastOp.op = "SetPriority"
    /\ lastOp.p = "urgent"
    /\ Message.Priority = "normal"


\* C19: in the versioned payload, when the data payload has a string field
\* "alert" (the empty string included), message.notification.title and
\* message.android.notification.title are that value; otherwise both are
\* the notification's title; both bodies are the notification's body.
C19_AlertOverridesTitle ==
    pout.fn = "convertToV1Message" =>
      LET d        == pin.msg.Data
          hasAlert == /\ d.dyn \in {"map[string]interface{}", "map[string]string"}
                      /\ "alert" \in DOMAIN d.val.kv
                      /\ d.val.kv["alert"].t = "str"
          expected == IF hasAlert THEN d.val.kv["alert"].s ELSE pin.msg.Notification.Title
          message  == pout.out.kv["message"].kv
      IN /\ message["notification"].kv["title"] = Str(expected)
         /\ message["android"].kv["notification"].kv["title"] = Str(expected)
         /\ message["notification"].kv["body"] = Str(pin.msg.Notification.Body)
         /\ message["android"].kv["notification"].kv["body"] = Str(pin.msg.Notification.Body)

\* C20: a versioned send that got a response with transport status >= 500
\* and returned a nil error returns a ResponseStatus on which IsTimeout is true.
C20_V1ServerErrorIsTimeout ==
    (GotResponse /\ client.UseV1Api /\ lastOp.env.resp.code >= 500
       /\ ret.kind = "status" /\ ret.err = "nil")
    => /\ HasStatus
       /\ IsTimeout(ret.st)


\* C21: the flattened map is a function of the data tree alone: whatever
\* order the keys of each object are visited in, flattenMap yields the same
\* output, also when two paths produce the same key ("a.b" beside a nested
\* a.b, "c.0" beside an array c).
C21_FlattenOrderIndependent ==
    pout.fn = "flattenMap" =>
      \A o \in flattenMap("", pin.input, Empty) : o = pout.out

=============================================================================
